---------------------------- MODULE Spec2Model ----------------------------
(***************************************************************************)
(* Model of server.js: an Express service holding one in-memory array of   *)
(* todos and answering five routes (list, get by id, create, update by id, *)
(* delete by id).  Node runs every handler to completion, so each request  *)
(* is one atomic action.  The last request and its response are kept in    *)
(* the state so that properties can relate a request, its response and the *)
(* array before and after.                                                 *)
(***************************************************************************)
EXTENDS Integers, Sequences, FiniteSets, TLC

\* Largest number of records the array is allowed to grow to in the model.
MaxLen == 3

(***************************************************************************)
(* JavaScript values.  Every value is a record of the same shape, so that  *)
(* values of different JavaScript types can be compared.  A path parameter *)
(* is a sequence of one-character strings: parseInt reads it by character. *)
(***************************************************************************)
Undef == [t |-> "undefined", n |-> 0, s |-> ""]
NaN == [t |-> "NaN", n |-> 0, s |-> ""]
Num(k) == [t |-> "number", n |-> k, s |-> ""]
Str(str) == [t |-> "string", n |-> 0, s |-> str]
Bool(b) == [t |-> "boolean", n |-> IF b THEN 1 ELSE 0, s |-> ""]
Null == [t |-> "null", n |-> 0, s |-> ""]

\* The characters of the strings that occur as ids.
Chars(str) == CASE str = "123" -> <<"1","2","3">>

DecDigits == <<"0","1","2","3","4","5","6","7","8","9">>
HexLower == DecDigits \o <<"a","b","c","d","e","f">>
HexUpper == DecDigits \o <<"A","B","C","D","E","F">>
WhiteSpace == {" "}

IndexOf(seq, c) ==
  IF \E i \in 1..Len(seq) : seq[i] = c
  THEN CHOOSE i \in 1..Len(seq) : seq[i] = c
  ELSE 0

\* The value of character c as a digit in the given radix, -1 when it is none.
DigitVal(c, radix) ==
  LET i == IndexOf(HexLower, c)
      j == IndexOf(HexUpper, c)
      k == IF i # 0 THEN i ELSE j
  IN IF k # 0 /\ k <= radix THEN k - 1 ELSE -1

RECURSIVE TrimLeft(_)
TrimLeft(cs) ==
  IF cs # <<>> /\ Head(cs) \in WhiteSpace THEN TrimLeft(Tail(cs)) ELSE cs

\* The longest prefix of cs made of digits of the radix.
RECURSIVE DigitPrefix(_, _)
DigitPrefix(cs, radix) ==
  IF cs # <<>> /\ DigitVal(Head(cs), radix) >= 0
  THEN <<Head(cs)>> \o DigitPrefix(Tail(cs), radix)
  ELSE <<>>

RECURSIVE DigitsValue(_, _)
DigitsValue(ds, radix) ==
  IF ds = <<>> THEN 0
  ELSE DigitsValue(SubSeq(ds, 1, Len(ds) - 1), radix) * radix
       + DigitVal(ds[Len(ds)], radix)

(***************************************************************************)
(* parseInt(string) with no radix: leading white space is skipped, a sign  *)
(* is read, a 0x or 0X prefix selects radix 16, the longest prefix of      *)
(* digits is converted and whatever follows is ignored; no digit at all    *)
(* gives NaN.                                                              *)
(***************************************************************************)
ParseInt(cs) ==
  LET t == TrimLeft(cs)
      neg == t # <<>> /\ Head(t) = "-"
      u == IF t # <<>> /\ Head(t) \in {"+", "-"} THEN Tail(t) ELSE t
      hex == Len(u) >= 2 /\ u[1] = "0" /\ u[2] \in {"x", "X"}
      radix == IF hex THEN 16 ELSE 10
      v == IF hex THEN SubSeq(u, 3, Len(u)) ELSE u
      ds == DigitPrefix(v, radix)
  IN IF ds = <<>> THEN NaN
     ELSE Num(IF neg THEN 0 - DigitsValue(ds, radix) ELSE DigitsValue(ds, radix))

\* A string that is a plain decimal numeral converts to its number, any other
\* string to NaN (used by the loose comparison below only).
StringToNumber(cs) ==
  IF cs # <<>> /\ DigitPrefix(cs, 10) = cs THEN Num(DigitsValue(cs, 10)) ELSE NaN

\* a == b, which converts a string operand to a number before comparing.
LooseEq(a, b) ==
  LET x == IF a.t = "string" /\ b.t = "number" THEN StringToNumber(Chars(a.s)) ELSE a
      y == IF b.t = "string" /\ a.t = "number" THEN StringToNumber(Chars(b.s)) ELSE b
  IN x.t # "NaN" /\ y.t # "NaN" /\ x = y

\* a === b: same type and same value, and NaN equal to nothing.
StrictEq(a, b) == a.t # "NaN" /\ b.t # "NaN" /\ a = b

\* A test that only rejects a missing title (title === undefined).
IsDefined(v) == v.t # "undefined"

\* The truthiness of a value, as !title reads it.
Truthy(v) ==
  CASE v.t = "undefined" -> FALSE
    [] v.t = "null" -> FALSE
    [] v.t = "NaN" -> FALSE
    [] v.t = "boolean" -> v.n = 1
    [] v.t = "number" -> v.n # 0
    [] v.t = "string" -> v.s # ""
    [] OTHER -> TRUE

(***************************************************************************)
(* Todos and request bodies.  A property a JSON body omits reads as        *)
(* undefined, and a property holding undefined is left out by res.json.    *)
(***************************************************************************)
MkBody(title, description, dueDate, completed, priority) ==
  [title |-> title, description |-> description, dueDate |-> dueDate,
   completed |-> completed, priority |-> priority]

MkTodo(id, title, description, dueDate, completed, priority) ==
  [id |-> id, title |-> title, description |-> description,
   dueDate |-> dueDate, completed |-> completed, priority |-> priority]

SeedTodo ==
  MkTodo(Str("123"),
         Str("Play Red Dead Redemption 2"),
         Str("Really interesting game."),
         Str("Sat Dec 10 2022 04:08:42 GMT+0000 (Coordinated Universal Time)"),
         Bool(FALSE),
         Num(3))

\* A store that starts with no record.
NoTodos == <<>>

\* The array as the module creates it.
SeedTodos == <<SeedTodo>>

(***************************************************************************)
(* Requests.  The bodies and path parameters the model sends.              *)
(***************************************************************************)
EmptyBody == MkBody(Undef, Undef, Undef, Undef, Undef)

Bodies ==
  { EmptyBody,
    MkBody(Str(""), Undef, Undef, Undef, Num(2)),
    MkBody(Str("X"), Undef, Undef, Undef, Undef),
    MkBody(Str("Y"), Str("d"), Str("t"), Bool(FALSE), Num(0)),
    MkBody(Null, Str("d"), Undef, Bool(TRUE), Undef) }

\* String(n) for an integer n: its decimal numeral, as a client writes an id
\* into the path.
RECURSIVE NumberToString(_)
NumberToString(n) ==
  IF n < 0 THEN <<"-">> \o NumberToString(0 - n)
  ELSE IF n < 10 THEN <<DecDigits[n + 1]>>
  ELSE NumberToString(n \div 10) \o <<DecDigits[(n % 10) + 1]>>

\* The text of an id value in a path: a string as it is, a number as its numeral.
IdText(v) == IF v.t = "string" THEN Chars(v.s) ELSE NumberToString(v.n)

Params ==
  { NumberToString(n) : n \in 1..(MaxLen + 1) }
  \cup { <<"1","2","3">>, <<"a","b","c">>, <<" ","2","x">>, <<"-","0","X","2">> }

NoTodo == MkTodo(Undef, Undef, Undef, Undef, Undef, Undef)

Req(method, param, body) == [method |-> method, param |-> param, body |-> body]

\* res.status(status).json(...): the body is a todo, the array or a message.
Res(status, kind, todo, list, message) ==
  [status |-> status, kind |-> kind, todo |-> todo, list |-> list,
   message |-> message]

TodoRes(status, todo) == Res(status, "todo", todo, <<>>, "")
ListRes(status, list) == Res(status, "list", NoTodo, list, "")
MessageRes(status, message) == Res(status, "message", NoTodo, <<>>, message)

(***************************************************************************)
(* The state: the array, the last request and its response, and whether a  *)
(* delete has removed a record so far.                                     *)
(***************************************************************************)
VARIABLES todos, req, res, deleted

vars == <<todos, req, res, deleted>>

Init ==
  /\ todos = SeedTodos
  /\ req = Req("NONE", <<>>, EmptyBody)
  /\ res = MessageRes(0, "")
  /\ deleted = FALSE

\* todos.findIndex((t) => t.id === id): the first position whose id matches,
\* counted from 1, and 0 where the code has -1.
FindIndex(ts, id) ==
  IF \E i \in 1..Len(ts) : StrictEq(ts[i].id, id)
  THEN CHOOSE i \in 1..Len(ts) :
         /\ StrictEq(ts[i].id, id)
         /\ \A j \in 1..(i - 1) : ~StrictEq(ts[j].id, id)
  ELSE 0

\* An id that forgets the + 1.
LengthId(ts) == Num(Len(ts))

\* const id = todos.length + 1
NewId(ts) == Num(Len(ts) + 1)

\* A record whose omitted completed flag defaults to false.
DefaultingTodo(id, body) ==
  MkTodo(id, body.title, body.description, body.dueDate,
         IF body.completed.t = "undefined" THEN Bool(FALSE) ELSE body.completed,
         body.priority)

\* { id, title, description, dueDate, completed, priority }
BuildTodo(id, body) ==
  MkTodo(id, body.title, body.description, body.dueDate, body.completed,
         body.priority)

\* todos.push(newTodo)
Push(ts, todo) == Append(ts, todo)

\* A partial update: a field the payload omits keeps its stored value.
MergeAt(ts, i, todo) ==
  [ts EXCEPT ![i] = [f \in DOMAIN todo |->
                       IF todo[f].t = "undefined" THEN ts[i][f] ELSE todo[f]]]

\* todos[todoIndex] = updatedTodo
ReplaceAt(ts, i, todo) == [ts EXCEPT ![i] = todo]

\* todos.splice(todoIndex): everything from the position on is removed.
SpliceToEnd(ts, i) == SubSeq(ts, 1, i - 1)

\* todos.splice(todoIndex, 1)
Splice(ts, i) == SubSeq(ts, 1, i - 1) \o SubSeq(ts, i + 1, Len(ts))

\* GET /api/todo
List ==
  /\ req' = Req("LIST", <<>>, EmptyBody)
  /\ res' = ListRes(200, todos)
  /\ UNCHANGED <<todos, deleted>>

\* GET /api/todo/:id
GetById(p) ==
  LET id == ParseInt(p)
      todoIndex == FindIndex(todos, id)
  IN /\ req' = Req("GET", p, EmptyBody)
     /\ res' = IF todoIndex = 0
               THEN MessageRes(404, "Todo not found")
               ELSE TodoRes(200, todos[todoIndex])
     /\ UNCHANGED <<todos, deleted>>

\* POST /api/todo
Create(body) ==
  /\ Truthy(body.title) => Len(todos) < MaxLen
  /\ req' = Req("POST", <<>>, body)
  /\ IF ~Truthy(body.title)
     THEN /\ res' = MessageRes(400, "Title is required")
          /\ todos' = todos
     ELSE LET newTodo == BuildTodo(NewId(todos), body)
          IN /\ todos' = Push(todos, newTodo)
             /\ res' = TodoRes(201, newTodo)
  /\ UNCHANGED deleted

\* PUT /api/todo/:id
Update(p, body) ==
  LET id == ParseInt(p)
      todoIndex == FindIndex(todos, id)
  IN /\ req' = Req("PUT", p, body)
     /\ IF todoIndex = 0
        THEN /\ res' = MessageRes(404, "Todo not found")
             /\ todos' = todos
        ELSE LET updatedTodo == BuildTodo(id, body)
             IN /\ todos' = ReplaceAt(todos, todoIndex, updatedTodo)
                /\ res' = TodoRes(200, updatedTodo)
     /\ UNCHANGED deleted

\* DELETE /api/todo/:id
Delete(p) ==
  LET id == ParseInt(p)
      todoIndex == FindIndex(todos, id)
  IN /\ req' = Req("DELETE", p, EmptyBody)
     /\ IF todoIndex = 0
        THEN /\ res' = MessageRes(404, "Todo not found")
             /\ UNCHANGED <<todos, deleted>>
        ELSE /\ todos' = Splice(todos, todoIndex)
             /\ res' = MessageRes(200, "Todo deleted")
             /\ deleted' = TRUE

Next ==
  \/ List
  \/ \E p \in Params : GetById(p)
  \/ \E body \in Bodies : Create(body)
  \/ \E p \in Params, body \in Bodies : Update(p, body)
  \/ \E p \in Params : Delete(p)

Spec == Init /\ [][Next]_vars

(***************************************************************************)
(* Properties.  They are stated in their own terms (which values are       *)
(* falsy, which record a numeric id designates) and relate the last        *)
(* request, its response and the array before and after the step.          *)
(***************************************************************************)
IsInteger(v) == v.t = "number"

Falsy(v) == v \in {Undef, Null, NaN, Str(""), Num(0), Bool(FALSE)}

\* The positions of ts holding the number that the path parameter p parses to.
Matches(ts, p) ==
  LET k == ParseInt(p)
  IN {i \in 1..Len(ts) : k.t = "number" /\ ts[i].id.t = "number" /\ ts[i].id.n = k.n}

FirstMatch(ts, p) ==
  LET m == Matches(ts, p) IN CHOOSE i \in m : \A j \in m : i <= j

HasDuplicateIds(ts) ==
  \E i, j \in 1..Len(ts) : i < j /\ ts[i].id = ts[j].id

\* The record a payload describes under a given id.
Submitted(id, body) ==
  MkTodo(id, body.title, body.description, body.dueDate, body.completed,
         body.priority)

\* C1: a POST with a truthy title is answered 201 with a record that carries
\* the integer id given to it and the submitted fields, and a GET of that id
\* issued next answers 200 with that same record.
CreateThenGetRoundTrip ==
  [][ (req.method = "POST" /\ ~Falsy(req.body.title))
      => /\ res.status = 201
         /\ IsInteger(res.todo.id)
         /\ res.todo = Submitted(res.todo.id, req.body)
         /\ (req'.method = "GET" /\ req'.param = IdText(res.todo.id))
            => res' = TodoRes(200, res.todo) ]_vars

\* C2: a POST whose title is missing or falsy answers 400 "Title is required"
\* and leaves the array as it was.
RejectsFalsyTitle ==
  [][ (req'.method = "POST" /\ Falsy(req'.body.title))
      => /\ res' = MessageRes(400, "Title is required")
         /\ todos' = todos ]_vars

RejectsFalsyTitleWitness ==
  /\ req.method = "POST"
  /\ req.body.title = Str("")
  /\ res.status = 400
  /\ Len(todos) >= 2

\* C3: a GET, PUT or DELETE whose path parameter parses to no stored numeric id
\* (a parameter that is not a number included) answers 404 "Todo not found"
\* and leaves the array as it was.
NotFoundWhenNoMatch ==
  [][ (req'.method \in {"GET", "PUT", "DELETE"} /\ Matches(todos, req'.param) = {})
      => /\ res' = MessageRes(404, "Todo not found")
         /\ todos' = todos ]_vars

NotFoundWitness ==
  /\ req.method = "DELETE"
  /\ req.param = <<"a","b","c">>
  /\ res.status = 404
  /\ Len(todos) >= 2

\* C4: a PUT whose id matches replaces the first matching record, in place, by
\* the path id and the five payload fields (omitted ones absent), keeps the
\* length and every other record, and answers 200 with the new record.
PutReplacesFirstMatch ==
  [][ (req'.method = "PUT" /\ Matches(todos, req'.param) # {})
      => LET i == FirstMatch(todos, req'.param)
             new == Submitted(ParseInt(req'.param), req'.body)
         IN /\ res' = TodoRes(200, new)
            /\ Len(todos') = Len(todos)
            /\ todos'[i] = new
            /\ \A j \in 1..Len(todos) : j # i => todos'[j] = todos[j] ]_vars

\* A PUT that omitted fields has replaced the first of two records with the
\* same id and left the second alone.
PutReplacesWitness ==
  /\ req.method = "PUT"
  /\ res.status = 200
  /\ req.body.title = Undef
  /\ \E i, j \in 1..Len(todos) :
       /\ i < j
       /\ todos[i] = res.todo
       /\ todos[j].id = res.todo.id
       /\ todos[j] # res.todo

\* C5: a DELETE whose id matches removes the first matching record and nothing
\* else: the length drops by one, the others keep their contents and order,
\* and the answer is 200 "Todo deleted".
DeleteRemovesFirstMatch ==
  [][ (req'.method = "DELETE" /\ Matches(todos, req'.param) # {})
      => LET i == FirstMatch(todos, req'.param)
         IN /\ res' = MessageRes(200, "Todo deleted")
            /\ Len(todos') = Len(todos) - 1
            /\ \A j \in 1..(i - 1) : todos'[j] = todos[j]
            /\ \A j \in i..(Len(todos) - 1) : todos'[j] = todos[j + 1] ]_vars

\* The record with id 2 was deleted from between the seed and the record with id 3.
DeleteWitness ==
  /\ req.method = "DELETE"
  /\ req.param = <<"2">>
  /\ res.status = 200
  /\ Len(todos) = 2
  /\ todos[1] = SeedTodo
  /\ todos[2].id = Num(3)

\* C6: a POST with a truthy title appends one record whose id is the length
\* before the request plus one and whose fields are the payload's, omitted
\* ones absent; earlier records stay, and the answer is 201 with the record.
CreateAppends ==
  [][ (req'.method = "POST" /\ ~Falsy(req'.body.title))
      => LET new == Submitted(Num(Len(todos) + 1), req'.body)
         IN /\ todos' = todos \o <<new>>
            /\ res' = TodoRes(201, new) ]_vars

\* A create after a delete, with every optional field omitted.
CreateWitness ==
  /\ req.method = "POST"
  /\ res.status = 201
  /\ deleted
  /\ res.todo.completed = Undef
  /\ res.todo.description = Undef
  /\ todos[Len(todos)] = res.todo

\* C7: a list request answers 200 with the whole array as it stands and does
\* not change it; as the first request it returns exactly the seed record.
ListReturnsAll ==
  [][ req'.method = "LIST"
      => /\ res' = ListRes(200, todos)
         /\ todos' = todos
         /\ req.method = "NONE" => res'.list = <<SeedTodo>> ]_vars

ListWitness ==
  /\ req.method = "LIST"
  /\ res.status = 200
  /\ Len(res.list) = 3
  /\ res.list = todos
  /\ deleted

\* C8: the id of every record in the array is an integer.
AllIdsAreIntegers == \A i \in 1..Len(todos) : IsInteger(todos[i].id)

\* C9: two records can end up with the same id, and only in this way: after a
\* delete, a create assigns length + 1, which a stored record already holds.
DuplicateIdsOnlyAfterDelete ==
  [][ (~HasDuplicateIds(todos) /\ HasDuplicateIds(todos'))
      => /\ deleted
         /\ req'.method = "POST"
         /\ res'.status = 201
         /\ res'.todo.id = Num(Len(todos) + 1)
         /\ \E i \in 1..Len(todos) : todos[i].id = Num(Len(todos) + 1) ]_vars

\* A create that followed a delete has left two records with the same id.
DuplicateIdsWitness ==
  /\ deleted
  /\ req.method = "POST"
  /\ res.status = 201
  /\ \E i \in 1..(Len(todos) - 1) : todos[i].id = todos[Len(todos)].id

\* C10: a GET, PUT or DELETE whose path parameter is the text of a stored
\* record's id finds a record: it answers 200, a GET with a record of that id.
EveryRecordAddressable ==
  [][ \A i \in 1..Len(todos) :
        (req'.method \in {"GET", "PUT", "DELETE"} /\ req'.param = IdText(todos[i].id))
        => /\ res'.status = 200
           /\ req'.method = "GET" => res'.todo.id = todos[i].id ]_vars

====
